---- MODULE Spec2Model ----
(***************************************************************************)
(* Magic Mirror: the wake-word HomeClient session state machine            *)
(* (unnamed/part_000), the audio-reactive SiriOrb                          *)
(* (components/smoothui/siri-orb/index.tsx), the button clients with their *)
(* MediaPublisher, the token endpoints, TranscriptDisplay and the agent's  *)
(* RealtimeAssistant (unnamed/part_001).  Each part has its own variable.  *)
(*                                                                         *)
(* Home part.  One variable `home` holds the component state: React state, *)
(* refs, the values handed out by usePorcupine, pending timers and the     *)
(* token requests in flight.  A step is one event-loop task: an event      *)
(* handler, a timer callback or a promise continuation, together with the  *)
(* React commit it causes, i.e. followed by every useEffect whose          *)
(* dependencies changed in that commit, in declaration order.              *)
(*                                                                         *)
(* The keyword engine behind usePorcupine is an external collaborator; it  *)
(* is modelled by its contract: init resolves to ready or error, start()   *)
(* and stop() are asynchronous and take effect in call order, a detection  *)
(* is emitted only while the engine is listening.                          *)
(***************************************************************************)
EXTENDS Integers, Sequences, FiniteSets, TLC

VARIABLES home, orb, button, endpoint, publisher, transcript, assistant

vars == <<home, orb, button, endpoint, publisher, transcript, assistant>>

(***************************************************************************)
(* Bounds                                                                  *)
(***************************************************************************)
\* number of detection events the engine emits in a run
MaxDetections == 3
\* number of 1.5 s resume timers pending at the same time
MaxResumeTimers == 2
\* number of re-runs of the wake word effect caused by a new identity of one
\* of its function dependencies
MaxReruns == 1

(***************************************************************************)
(* Program constants                                                       *)
(***************************************************************************)
NoToken == 0
NoDetection == 0
NoMode == "null"
NoError == "null"

\* outcomes of `await fetch(endpoint)` followed by the response handling
FetchOutcomes ==
  {"ok", "status_error_body", "status_no_error_body", "throws_error", "throws_other"}

\* setError(err instanceof Error ? err.message : "Connection failed")
ErrorText(outcome) ==
  CASE outcome = "status_error_body"    -> "server error string"
    [] outcome = "status_no_error_body" -> "Failed to get token"
    [] outcome = "throws_error"         -> "fetch error message"
    [] outcome = "throws_other"         -> "Connection failed"

(***************************************************************************)
(* Effects of the wake-word HomeClient.  `o` is the state of the previous  *)
(* commit, `n` the state the handler produced; each operator returns `n`   *)
(* after the effect has run (or `n` itself when the dependencies did not   *)
(* change or the condition is false).                                      *)
(***************************************************************************)
CallStart(n) ==
  [n EXCEPT !.engineOps = Append(@, "start"), !.calls = @ \union {"startPorcupine"}]

CallStop(n) ==
  [n EXCEPT !.engineOps = Append(@, "stop"), !.calls = @ \union {"stopPorcupine"}]

\* a start-listening effect that tests isConnected instead of !isConnected
StartListeningEffect_WhenConnected(o, n) ==
  IF /\ <<o.isPorcupineLoaded, o.isPorcupineListening, o.isConnected, o.isConnecting>>
          # <<n.isPorcupineLoaded, n.isPorcupineListening, n.isConnected, n.isConnecting>>
     /\ n.isPorcupineLoaded /\ ~n.isPorcupineListening
     /\ n.isConnected /\ ~n.isConnecting
  THEN CallStart(n)
  ELSE n

\* a start-listening effect that runs only when isPorcupineLoaded changes
StartListeningEffect_OnLoadOnly(o, n) ==
  IF /\ o.isPorcupineLoaded # n.isPorcupineLoaded
     /\ n.isPorcupineLoaded /\ ~n.isPorcupineListening
     /\ ~n.isConnected /\ ~n.isConnecting
  THEN CallStart(n)
  ELSE n

\* useEffect: start listening once Porcupine is loaded
StartListeningEffect(o, n) ==
  IF /\ <<o.isPorcupineLoaded, o.isPorcupineListening, o.isConnected, o.isConnecting>>
          # <<n.isPorcupineLoaded, n.isPorcupineListening, n.isConnected, n.isConnecting>>
     /\ n.isPorcupineLoaded /\ ~n.isPorcupineListening
     /\ ~n.isConnected /\ ~n.isConnecting
  THEN CallStart(n)
  ELSE n

\* the wake word effect without the latch test
DetectionAccepted_NoLatch(n) ==
  n.keywordDetection # NoDetection

\* the latch test of the wake word effect
DetectionAccepted(n) ==
  n.keywordDetection # NoDetection /\ ~n.connectingAfterWakeWordRef

\* the body of the wake word effect
WakeWordEffectBody(n) ==
  IF DetectionAccepted(n)
  THEN CallStop([n EXCEPT !.wakeWordDetected = TRUE,
                          !.connectingAfterWakeWordRef = TRUE,
                          !.settleTimers = @ + 1])
  ELSE n

\* useEffect: handle wake word detection
WakeWordEffect(o, n) ==
  IF o.keywordDetection # n.keywordDetection
  THEN WakeWordEffectBody(n)
  ELSE n

\* useEffect: stop Porcupine when connecting/connected
StopListeningEffect(o, n) ==
  IF /\ <<o.isConnecting, o.isConnected, o.isPorcupineListening>>
          # <<n.isConnecting, n.isConnected, n.isPorcupineListening>>
     /\ (n.isConnecting \/ n.isConnected) /\ n.isPorcupineListening
  THEN CallStop(n)
  ELSE n

\* useEffect: log Porcupine errors
PorcupineErrorEffect(o, n) ==
  IF o.porcupineError # n.porcupineError /\ n.porcupineError
  THEN [n EXCEPT !.error = "Wake word error"]
  ELSE n

\* the commit that follows a handler: the effects in declaration order; the
\* dependencies are compared against the previous commit `o`
RunEffects(o, n) ==
  LET a == StartListeningEffect(o, n)
      b == WakeWordEffect(o, a)
      c == StopListeningEffect(o, b)
  IN  PorcupineErrorEffect(o, c)

\* a handler starts with no external call made in this step; `last` names
\* the handler (and its input) that produced the state
Begin(handler) == [home EXCEPT !.calls = {}, !.last = handler]

Commit(n) == home' = RunEffects(home, n) /\ UNCHANGED <<orb, button, endpoint, publisher, transcript, assistant>>

(***************************************************************************)
(* Initial state: the component is mounted, setupPorcupine has been called *)
(* and, with an access key, awaits initPorcupine.                          *)
(***************************************************************************)
HomeMounted(key) ==
           [ mounted                    |-> TRUE,
             engine                     |-> "none",
             hasKey                     |-> key,
             initState                  |-> IF key THEN "pending" ELSE "skipped",
             porcupineInitializedRef    |-> FALSE,
             isPorcupineLoaded          |-> FALSE,
             isPorcupineListening       |-> FALSE,
             porcupineError             |-> FALSE,
             keywordDetection           |-> NoDetection,
             engineOps                  |-> << >>,
             isConnecting               |-> FALSE,
             isConnected                |-> FALSE,
             connectionMode             |-> NoMode,
             token                      |-> NoToken,
             serverUrl                  |-> NoToken,
             error                      |-> NoError,
             wakeWordDetected           |-> FALSE,
             agentAudioStream           |-> FALSE,
             isAgentSpeaking            |-> FALSE,
             isBlurActive               |-> FALSE,
             connectingAfterWakeWordRef |-> FALSE,
             settleTimers               |-> 0,
             resumeTimers               |-> << >>,
             inFlight                   |-> {},
             reqCount                   |-> 0,
             reruns                     |-> 0,
             discarded                  |-> {},
             calls                      |-> {},
             last                       |-> <<"mount">> ]

\* the LiveKitRoom subtree is rendered
RoomRendered(h) == h.isConnected /\ h.token # NoToken /\ h.serverUrl # NoToken

(***************************************************************************)
(* Keyword engine                                                          *)
(***************************************************************************)
\* await initPorcupine(...) resolves
InitPorcupineResolves ==
  /\ home.initState = "pending"
  /\ Commit([Begin(<<"initPorcupine resolves">>) EXCEPT !.initState = "ready",
                          !.engine = "initialized",
                          !.porcupineInitializedRef = TRUE,
                          !.isPorcupineLoaded = TRUE])

\* await initPorcupine(...) throws: catch branch of setupPorcupine
InitPorcupineThrows ==
  /\ home.initState = "pending"
  /\ Commit([Begin(<<"initPorcupine throws">>) EXCEPT !.initState = "failed",
                          !.error = "Wake word init failed"])

\* an initPorcupine that reports the failure and still marks the engine loaded
InitPorcupineSetsError_Loaded ==
  /\ home.initState = "pending"
  /\ Commit([Begin(<<"initPorcupine sets error">>) EXCEPT !.initState = "error",
                          !.porcupineInitializedRef = TRUE,
                          !.isPorcupineLoaded = TRUE,
                          !.porcupineError = TRUE])

\* await initPorcupine(...) resolves after the hook caught the failure and
\* stored it in its error state: isLoaded stays false
InitPorcupineSetsError ==
  /\ home.initState = "pending"
  /\ Commit([Begin(<<"initPorcupine sets error">>) EXCEPT !.initState = "error",
                          !.porcupineInitializedRef = TRUE,
                          !.porcupineError = TRUE])

\* the engine reports an error through the hook's error state
PorcupineReportsError ==
  /\ home.isPorcupineLoaded /\ ~home.porcupineError
  /\ Commit([Begin(<<"porcupineError">>) EXCEPT !.porcupineError = TRUE])

\* a pending start()/stop() of the engine takes effect
EngineOpCompletes ==
  /\ home.engineOps # << >>
  /\ Commit([Begin(<<"engine", Head(home.engineOps)>>) EXCEPT !.engineOps = Tail(@),
                          !.isPorcupineListening = (Head(home.engineOps) = "start")])

\* the engine matches the keyword: a new keywordDetection value
KeywordDetected ==
  /\ home.isPorcupineListening
  /\ home.keywordDetection < MaxDetections
  /\ Commit([Begin(<<"keywordDetection">>) EXCEPT !.keywordDetection = @ + 1])

(***************************************************************************)
(* Session                                                                 *)
(***************************************************************************)
\* connectToAgent(mode) up to `await fetch`
ConnectToAgentBegin(n, mode) ==
  [n EXCEPT !.isConnecting = TRUE,
            !.connectionMode = mode,
            !.error = NoError,
            !.reqCount = @ + 1,
            !.inFlight = @ \union {n.reqCount + 1},
            !.calls = @ \union {"fetch"}]

\* the 300 ms settle timer fires: connectToAgent("vision")
SettleTimerFires ==
  /\ home.settleTimers > 0
  /\ Commit(ConnectToAgentBegin([Begin(<<"settle timer">>) EXCEPT !.settleTimers = @ - 1], "vision"))

\* connectToAgent whose failure path leaves isConnecting set
ConnectToAgentEnd_NoFinally(n, r, outcome) ==
  LET m == [n EXCEPT !.inFlight = @ \ {r}]
  IN  IF outcome = "ok"
      THEN [m EXCEPT !.serverUrl = r,
                     !.token = r,
                     !.isConnected = TRUE,
                     !.isBlurActive = TRUE,
                     !.isConnecting = FALSE]
      ELSE [m EXCEPT !.error = ErrorText(outcome),
                     !.connectionMode = NoMode]

\* connectToAgent after `await fetch`: try / catch / finally
ConnectToAgentEnd(n, r, outcome) ==
  LET m == [n EXCEPT !.inFlight = @ \ {r}]
  IN  IF outcome = "ok"
      THEN [m EXCEPT !.serverUrl = r,
                     !.token = r,
                     !.isConnected = TRUE,
                     !.isBlurActive = TRUE,
                     !.isConnecting = FALSE]
      ELSE [m EXCEPT !.error = ErrorText(outcome),
                     !.connectionMode = NoMode,
                     !.isConnecting = FALSE]

FetchCompletes ==
  \E r \in home.inFlight, outcome \in FetchOutcomes :
    Commit(ConnectToAgentEnd(Begin(<<"fetch", outcome>>), r, outcome))

\* handleDisconnect that keeps the token and the server URL
handleDisconnect_KeepsDescriptor(n) ==
  [n EXCEPT !.isConnected = FALSE,
            !.isBlurActive = FALSE,
            !.connectionMode = NoMode,
            !.wakeWordDetected = FALSE,
            !.agentAudioStream = FALSE,
            !.isAgentSpeaking = FALSE,
            !.connectingAfterWakeWordRef = FALSE,
            !.resumeTimers = Append(@, [loaded    |-> n.isPorcupineLoaded,
                                        listening |-> n.isPorcupineListening])]

\* onDisconnected of LiveKitRoom
handleDisconnect(n) ==
  [n EXCEPT !.token = NoToken,
            !.serverUrl = NoToken,
            !.isConnected = FALSE,
            !.isBlurActive = FALSE,
            !.connectionMode = NoMode,
            !.wakeWordDetected = FALSE,
            !.agentAudioStream = FALSE,
            !.isAgentSpeaking = FALSE,
            !.connectingAfterWakeWordRef = FALSE,
            !.discarded = @ \union {n.token},
            !.resumeTimers = Append(@, [loaded    |-> n.isPorcupineLoaded,
                                        listening |-> n.isPorcupineListening])]

RoomDisconnected ==
  /\ RoomRendered(home)
  /\ Len(home.resumeTimers) < MaxResumeTimers
  /\ Commit(handleDisconnect(Begin(<<"handleDisconnect">>)))

\* the callback of the 1.5 s timer set by handleDisconnect; it reads the
\* values its closure captured
ResumeCallback(n, t) ==
  IF t.loaded /\ ~t.listening /\ n.hasKey THEN CallStart(n) ELSE n

ResumeTimerFires ==
  /\ home.resumeTimers # << >>
  /\ Commit(ResumeCallback([Begin(<<"resume timer">>) EXCEPT !.resumeTimers = Tail(@)],
                           Head(home.resumeTimers)))

\* onError of LiveKitRoom
RoomError ==
  /\ RoomRendered(home)
  /\ home.error # "LiveKit error"
  /\ Commit([Begin(<<"onError">>) EXCEPT !.error = "LiveKit error"])

\* handleAgentAudioStateChange, called by AgentAudioProvider
AgentAudioStateChange ==
  /\ RoomRendered(home)
  /\ \E on \in BOOLEAN :
       /\ on # home.agentAudioStream
       /\ Commit([Begin(<<"onAudioStateChange">>) EXCEPT !.agentAudioStream = on, !.isAgentSpeaking = on])

\* a render in which usePorcupine hands out a new stopPorcupine function (or
\* connectToAgent is a new function): the wake word effect lists both as
\* dependencies and runs again with the keywordDetection value it has
WakeWordEffectReruns ==
  /\ home.hasKey
  /\ home.reruns < MaxReruns
  /\ home' = WakeWordEffectBody([Begin(<<"wake word effect re-run">>) EXCEPT !.reruns = @ + 1])
  /\ UNCHANGED <<orb, button, endpoint, publisher, transcript, assistant>>

HomeNext ==
  \/ InitPorcupineResolves
  \/ InitPorcupineThrows
  \/ InitPorcupineSetsError
  \/ PorcupineReportsError
  \/ EngineOpCompletes
  \/ KeywordDetected
  \/ SettleTimerFires
  \/ FetchCompletes
  \/ RoomDisconnected
  \/ ResumeTimerFires
  \/ RoomError
  \/ AgentAudioStateChange

(***************************************************************************)
(* Teardown.  `engine` is the keyword engine itself: "none" until          *)
(* initPorcupine has created it, then "initialized", and "released" after  *)
(* releasePorcupine.                                                       *)
(***************************************************************************)
\* a step of the mounted component
MountedNext == home.mounted /\ HomeNext

\* releasePorcupine()
CallRelease(n) ==
  [n EXCEPT !.engine = IF @ = "initialized" THEN "released" ELSE @,
            !.calls = @ \union {"releasePorcupine"}]

\* the cleanup of the mount effect
SetupCleanup(n) ==
  IF n.porcupineInitializedRef
  THEN [CallRelease(n) EXCEPT !.porcupineInitializedRef = FALSE]
  ELSE n

\* React unmounts HomeClient: the cleanup of the mount effect runs
HomeUnmount ==
  /\ home.mounted
  /\ home' = SetupCleanup([Begin(<<"unmount">>) EXCEPT !.mounted = FALSE])
  /\ UNCHANGED <<orb, button, endpoint, publisher, transcript, assistant>>

\* the outcomes of the awaited initPorcupine call
InitOutcomes == {"resolves", "throws", "sets error"}

\* setupPorcupine after `await initPorcupine` when the component has been
\* unmounted meanwhile: state updates are dropped and no effect runs, the
\* assignment to the ref takes place
InitPorcupineSettlesUnmounted ==
  \E outcome \in InitOutcomes :
    /\ ~home.mounted
    /\ home.initState = "pending"
    /\ home' = [Begin(<<"initPorcupine", outcome>>) EXCEPT
                   !.initState = CASE outcome = "resolves" -> "ready"
                                   [] outcome = "throws" -> "failed"
                                   [] outcome = "sets error" -> "error",
                   !.engine = IF outcome = "resolves" THEN "initialized" ELSE @,
                   !.porcupineInitializedRef = (outcome # "throws")]
    /\ UNCHANGED <<orb, button, endpoint, publisher, transcript, assistant>>

(***************************************************************************)
(* SiriOrb.  Levels are fixed-point numbers: Scale stands for 1.0.  The    *)
(* factors of the code are exact fractions (0.98 = 49/50, 0.96 = 24/25,    *)
(* 0.92 = 23/25); a product is rounded down to a multiple of 1/Scale.      *)
(*                                                                         *)
(* `pending` is the browser's list of animation-frame callbacks in the     *)
(* order of their requestAnimationFrame calls.  An entry is `tracked` when *)
(* animationFrameRef.current holds its id: every requestAnimationFrame of  *)
(* the component overwrites the ref, so at most one entry is tracked, and  *)
(* cancelAnimationFrame(animationFrameRef.current) removes that entry.     *)
(***************************************************************************)
\* callbacks pending at the same time
MaxCallbacks == 3
\* calls of analyzeAudio in a run
MaxSamples == 2
\* re-runs of the audio effect in a run
MaxPropChanges == 3

Scale == 40000000
historySize == 12
\* fadeOut: smoothedLevelRef.current > 0.001
FadeEpsilon == Scale \div 1000
\* Math.min(average / 128, 1)
ReferenceCeiling == 128

\* the byte averages the analyser delivers in a frame
Averages == {0, 8}

\* the props of a render: the defaults of SiriOrb and the values HomeClient
\* passes; sensitivity and smoothing as fractions
PropSets == {"default", "home"}
\* the extreme values the props admit: sensitivity 1 and smoothing 0
ExtremeProps == "sensitivity 1, smoothing 0"
SensNum(p) == CASE p = "default" -> 1 [] p = "home" -> 9 [] p = ExtremeProps -> 1
SensDen(p) == CASE p = "default" -> 2 [] p = "home" -> 10 [] p = ExtremeProps -> 1
SmoothNum(p) == CASE p = "default" -> 24 [] p = "home" -> 23 [] p = ExtremeProps -> 0
SmoothDen(p) == 25

Min(a, b) == IF a < b THEN a ELSE b

RECURSIVE SumSeq(_)
SumSeq(s) == IF s = << >> THEN 0 ELSE Head(s) + SumSeq(Tail(s))

\* requestAnimationFrame(cb); animationFrameRef.current = id
RequestFrame(o, kind, p) ==
  [o EXCEPT !.pending =
     Append([i \in 1..Len(@) |-> [@[i] EXCEPT !.tracked = FALSE]],
            [kind |-> kind, props |-> p, tracked |-> TRUE])]

\* if (animationFrameRef.current) cancelAnimationFrame(animationFrameRef.current)
CancelFrame(o) ==
  [o EXCEPT !.pending = SelectSeq(@, LAMBDA c : ~c.tracked)]

\* average / 128 * sensitivity, without the clamp
NormalizedLevel_NoClamp(avg, p) ==
  (avg * (Scale \div ReferenceCeiling) * SensNum(p)) \div SensDen(p)

\* Math.min(average / 128, 1) * sensitivity
NormalizedLevel(avg, p) ==
  (Min(avg, ReferenceCeiling) * (Scale \div ReferenceCeiling) * SensNum(p)) \div SensDen(p)

\* a history buffer that drops the new sample when it is full
PushHistory_DropsNewest(h, x) ==
  IF Len(h) >= historySize THEN h ELSE Append(h, x)

\* historyRef.current.push(x); if (length > historySize) shift()
PushHistory(h, x) ==
  LET a == Append(h, x)
  IN  IF Len(a) > historySize THEN Tail(a) ELSE a

\* a smoothing step that leaves the target out
Smooth_NoTarget(level, target, p) ==
  (level * SmoothNum(p)) \div SmoothDen(p)

\* smoothed * smoothing + target * (1 - smoothing)
Smooth(level, target, p) ==
  (level * SmoothNum(p)) \div SmoothDen(p)
    + (target * (SmoothDen(p) - SmoothNum(p))) \div SmoothDen(p)

\* one call of analyzeAudio, created by the render with props p
analyzeAudio(o, avg, p) ==
  IF ~o.analyser THEN o
  ELSE LET h == PushHistory(o.history, NormalizedLevel(avg, p))
           target == SumSeq(h) \div Len(h)
           level == Smooth(o.smoothedLevel, target, p)
       IN  RequestFrame([o EXCEPT !.history = h,
                                  !.pushed = Append(@, NormalizedLevel(avg, p)),
                                  !.targetLevel = target,
                                  !.smoothedLevel = level,
                                  !.audioLevel = IF o.mounted THEN level ELSE @,
                                  !.samples = @ + 1],
                        "analyzeAudio", p)

\* a decay by 0.99 per frame
Decay_Slower(level) == level - (level \div 100)

\* smoothedLevelRef.current *= 0.98
Decay(level) == (level * 49) \div 50

\* a fadeOut that zeroes the level at once
fadeOut_Snaps(o) ==
  [o EXCEPT !.smoothedLevel = 0,
            !.audioLevel = IF o.mounted THEN 0 ELSE @]

\* one call of fadeOut
fadeOut(o) ==
  LET level == Decay(o.smoothedLevel)
  IN  IF level > FadeEpsilon
      THEN RequestFrame([o EXCEPT !.smoothedLevel = level,
                                  !.audioLevel = IF o.mounted THEN level ELSE @],
                        "fadeOut", "default")
      ELSE [o EXCEPT !.smoothedLevel = 0,
                     !.audioLevel = IF o.mounted THEN 0 ELSE @]

\* the cleanup function the audio effect returned, if it returned one
EffectCleanup(o) ==
  IF o.hasCleanup
  THEN [CancelFrame(o) EXCEPT !.contextOpen = FALSE, !.hasCleanup = FALSE]
  ELSE o

\* an audio effect whose detached branch keeps the history buffer
AudioEffect_KeepsHistory(o, avg) ==
  IF ~o.audioStream \/ ~o.isListening
  THEN fadeOut([o EXCEPT !.decayFrames = 0])
  ELSE analyzeAudio([o EXCEPT !.contextOpen = TRUE,
                              !.analyser = TRUE,
                              !.hasCleanup = TRUE], avg, o.props)

\* the body of the audio effect for the props (audioStream, isListening, p)
AudioEffect(o, avg) ==
  IF ~o.audioStream \/ ~o.isListening
  THEN fadeOut([o EXCEPT !.history = << >>, !.pushed = << >>, !.decayFrames = 0])
  ELSE analyzeAudio([o EXCEPT !.contextOpen = TRUE,
                              !.analyser = TRUE,
                              !.hasCleanup = TRUE], avg, o.props)

\* mounted with the default props: audioStream = null, isListening = false
OrbMounted ==
        [ mounted       |-> TRUE,
          audioStream   |-> FALSE,
          isListening   |-> FALSE,
          props         |-> "default",
          smoothedLevel |-> 0,
          targetLevel   |-> 0,
          audioLevel    |-> 0,
          history       |-> << >>,
          pushed        |-> << >>,
          analyser      |-> FALSE,
          contextOpen   |-> FALSE,
          hasCleanup    |-> FALSE,
          pending       |-> << >>,
          samples       |-> 0,
          propChanges   |-> 0,
          decayFrames   |-> 0 ]

Attached(o) == o.audioStream /\ o.isListening

\* the parent renders SiriOrb with other values of audioStream, isListening,
\* sensitivity or smoothing: cleanup of the previous effect, then the effect;
\* `cap` bounds the calls of analyzeAudio in the run, `avgs` are the byte
\* averages of a frame and `psets` the props the parent passes
OrbPropsChangeWith(cap, avgs, psets) ==
  \E stream \in BOOLEAN, listening \in BOOLEAN, p \in psets, avg \in avgs :
    /\ orb.mounted
    /\ <<stream, listening, p>> # <<orb.audioStream, orb.isListening, orb.props>>
    /\ Len(orb.pending) < MaxCallbacks
    /\ orb.propChanges < MaxPropChanges
    /\ (stream /\ listening) => orb.samples < cap
    /\ ~(stream /\ listening) => avg = 0
    /\ orb' = AudioEffect([EffectCleanup(orb) EXCEPT !.audioStream = stream,
                                                     !.isListening = listening,
                                                     !.props = p,
                                                     !.propChanges = @ + 1], avg)
    /\ UNCHANGED <<home, button, endpoint, publisher, transcript, assistant>>

OrbPropsChangeUpTo(cap) == OrbPropsChangeWith(cap, Averages, PropSets)

OrbPropsChange == OrbPropsChangeUpTo(MaxSamples)

\* the callbacks of one animation frame, in the order they were requested
RECURSIVE RunCallbacks(_, _, _)
RunCallbacks(o, cbs, avg) ==
  IF cbs = << >> THEN o
  ELSE RunCallbacks(IF Head(cbs).kind = "fadeOut"
                    THEN fadeOut(o)
                    ELSE analyzeAudio(o, avg, Head(cbs).props),
                    Tail(cbs), avg)

HasKind(o, kind) == \E i \in 1..Len(o.pending) : o.pending[i].kind = kind

\* the browser runs an animation frame; `cap` bounds the calls of
\* analyzeAudio in the run, `avgs` are the byte averages of a frame
OrbFrameWith(cap, avgs) ==
  \E avg \in avgs :
    /\ orb.pending # << >>
    /\ HasKind(orb, "analyzeAudio") => orb.samples < cap
    /\ ~HasKind(orb, "analyzeAudio") => avg = 0
    /\ orb' = RunCallbacks([orb EXCEPT !.pending = << >>,
                                       !.decayFrames =
                                          IF HasKind(orb, "fadeOut") THEN @ + 1 ELSE @],
                           orb.pending, avg)
    /\ UNCHANGED <<home, button, endpoint, publisher, transcript, assistant>>

OrbFrameUpTo(cap) == OrbFrameWith(cap, Averages)

OrbFrame == OrbFrameUpTo(MaxSamples)

\* React unmounts the component
OrbUnmount ==
  /\ orb.mounted
  /\ orb' = [EffectCleanup(orb) EXCEPT !.mounted = FALSE]
  /\ UNCHANGED <<home, button, endpoint, publisher, transcript, assistant>>

OrbNext == OrbPropsChange \/ OrbFrame \/ OrbUnmount

(***************************************************************************)
(* The decay loop on its own: the orb is sampling at some smoothed level,  *)
(* the source is detached and nothing else happens but animation frames.   *)
(***************************************************************************)
DecayStartLevels ==
  {0, 1, FadeEpsilon, FadeEpsilon + 1, 40816, 40817, Scale \div 2, Scale - 1, Scale}

OrbSampling(level, p) ==
          [ mounted       |-> TRUE,
            audioStream   |-> TRUE,
            isListening   |-> TRUE,
            props         |-> p,
            smoothedLevel |-> level,
            targetLevel   |-> level,
            audioLevel    |-> level,
            history       |-> <<level>>,
            pushed        |-> <<level>>,
            analyser      |-> TRUE,
            contextOpen   |-> TRUE,
            hasCleanup    |-> TRUE,
            pending       |-> <<[kind |-> "analyzeAudio", props |-> p, tracked |-> TRUE]>>,
            samples       |-> 1,
            propChanges   |-> 1,
            decayFrames   |-> 0 ]

\* audioStream becomes null or isListening false
OrbDetach == OrbPropsChange /\ Attached(orb) /\ ~Attached(orb')

\* an animation frame while the source is detached
OrbDecayFrame == OrbFrame /\ ~Attached(orb)

DecayNext == OrbDetach \/ OrbDecayFrame

(***************************************************************************)
(* The history buffer on its own: the source is attached, may be detached  *)
(* and attached again within the first samples, and is then sampled for    *)
(* more frames than the buffer holds.  Sensitivity and smoothing keep      *)
(* their values; a detach clears isListening.                              *)
(***************************************************************************)
\* calls of analyzeAudio in a run that fills the history buffer
MaxHistorySamples == 14

HistoryAttach ==
  /\ OrbPropsChangeUpTo(MaxHistorySamples)
  /\ ~Attached(orb) /\ Attached(orb')
  /\ orb'.props = orb.props

HistoryDetach ==
  /\ OrbPropsChangeUpTo(MaxHistorySamples)
  /\ Attached(orb) /\ ~Attached(orb')
  /\ orb'.props = orb.props /\ orb'.audioStream
  /\ orb.samples < MaxSamples

HistoryFrame == OrbFrameUpTo(MaxHistorySamples)

HistoryNext == HistoryAttach \/ HistoryDetach \/ HistoryFrame

(***************************************************************************)
(* The range of the level: the orb is sampling at any level in [0, 1] with *)
(* the default props, the props of HomeClient or the extreme props, and    *)
(* meets silent and saturated frames, a detach, decay frames and a         *)
(* re-attach.  Sensitivity and smoothing keep their values.                *)
(***************************************************************************)
\* calls of analyzeAudio in a run that explores the range of the level
MaxLevelSamples == 3

\* byte averages: silence, the reference ceiling, the largest byte value
LevelAverages == {0, ReferenceCeiling, 255}

LevelPropSets == PropSets \union {ExtremeProps}

LevelAttach ==
  /\ OrbPropsChangeWith(MaxLevelSamples, LevelAverages, LevelPropSets)
  /\ ~Attached(orb) /\ Attached(orb')
  /\ orb'.props = orb.props

LevelDetach ==
  /\ OrbPropsChangeWith(MaxLevelSamples, LevelAverages, LevelPropSets)
  /\ Attached(orb) /\ ~Attached(orb')
  /\ orb'.props = orb.props /\ orb'.audioStream

LevelFrame == OrbFrameWith(MaxLevelSamples, LevelAverages)

LevelNext == LevelAttach \/ LevelDetach \/ LevelFrame

\* minScale = 1, maxScale = 1.3
minScale == Scale
maxScale == Scale + (Scale \div 10) * 3

\* const scale = minScale + audioLevel * (maxScale - minScale)
OrbScale(o) == minScale + (o.audioLevel \div 10) * ((maxScale - minScale) \div (Scale \div 10))

(***************************************************************************)
(* Steady input: the orb is sampling at any level in [0, 1]; from the      *)
(* first frame on the analyser delivers the same byte average in every     *)
(* frame, so the normalized sample is a constant x.                        *)
(***************************************************************************)
\* calls of analyzeAudio in a run with steady input
MaxSteadySamples == 220

\* the byte averages a steady input can have
SteadyAverages == {0, 8, 64, ReferenceCeiling}

\* the constant sample: the one pushed last
SteadySample(o) == o.history[Len(o.history)]

SteadyFrame ==
  \E avg \in SteadyAverages :
    /\ orb.samples > 1 => NormalizedLevel(avg, orb.props) = SteadySample(orb)
    /\ OrbFrameWith(MaxSteadySamples, {avg})

(***************************************************************************)
(* MediaPublisher (AudioPublisher in the single-button client, which has   *)
(* no camera branch).  `publisher` is the component rendered inside the    *)
(* LiveKitRoom of a button client: its props, the state of the room it     *)
(* reads from the context, whether its room listeners are registered, the  *)
(* enableMedia calls made so far with the requests each of them made, and  *)
(* the last text passed to onStatusChange.                                 *)
(***************************************************************************)
\* room.state when the effect of MediaPublisher runs
RoomStatesAtMount == {"connecting", "connected"}

\* how an awaited setMicrophoneEnabled / setCameraEnabled ends
MediaOutcomes == {"resolves", "rejects"}

PublisherAbsent ==
           [ mounted     |-> FALSE,
             enableVideo |-> FALSE,
             roomState   |-> "disconnected",
             listening   |-> FALSE,
             calls       |-> <<>>,
             status      |-> "none" ]

\* enableMedia up to `await room.localParticipant.setMicrophoneEnabled(true)`
enableMedia(p) ==
  [p EXCEPT !.calls = Append(@, [video |-> p.enableVideo, connected |-> p.roomState,
                                 microphone |-> "requested", camera |-> "none"]),
            !.status = "Requesting microphone..."]

\* the body of the effect of MediaPublisher
MediaEffect(p) ==
  LET logged == [p EXCEPT !.status = IF p.roomState = "connected"
                                     THEN "Room state: connected"
                                     ELSE "Room state: connecting"]
      media  == IF p.roomState = "connected" THEN enableMedia(logged) ELSE logged
  IN  [media EXCEPT !.listening = TRUE]

\* MediaPublisher is rendered with the prop enableVideo in a room in state st
PublisherMounted(p, enableVideo, st) ==
  MediaEffect([p EXCEPT !.mounted = TRUE, !.enableVideo = enableVideo, !.roomState = st])

\* the room disconnects and the parent unmounts the LiveKitRoom subtree:
\* handleDisconnected, then the cleanup of the effect
MediaCleanup(p) ==
  IF p.mounted
  THEN [p EXCEPT !.mounted = FALSE, !.listening = FALSE, !.roomState = "disconnected",
                 !.status = "Disconnected"]
  ELSE p

\* onStatusChange={setStatus}
StatusShown(b, p) == IF b.mounted THEN [b EXCEPT !.status = p.status] ELSE b

\* enableMedia that asks for the camera without waiting for the microphone
MicrophoneSettled_CameraAnyway(c, outcome) ==
  [c EXCEPT !.microphone = IF outcome = "resolves" THEN "enabled" ELSE "failed",
            !.camera = IF c.video THEN "requested" ELSE "none"]

\* enableMedia after `await setMicrophoneEnabled(true)`
MicrophoneSettled(c, outcome) ==
  [c EXCEPT !.microphone = IF outcome = "resolves" THEN "enabled" ELSE "failed",
            !.camera = IF outcome = "resolves" /\ c.video THEN "requested" ELSE "none"]

\* the "connected" event of the room: handleConnected
RoomConnected ==
  /\ publisher.mounted /\ publisher.listening
  /\ publisher.roomState = "connecting"
  /\ publisher' = enableMedia([publisher EXCEPT !.roomState = "connected",
                                               !.status = "Connected to room"])
  /\ button' = StatusShown(button, publisher')
  /\ UNCHANGED <<home, orb, endpoint, transcript, assistant>>

\* the microphone request of an enableMedia call settles
MicrophoneSettles ==
  \E i \in DOMAIN publisher.calls, outcome \in MediaOutcomes :
    /\ publisher.calls[i].microphone = "requested"
    /\ LET c == MicrophoneSettled(publisher.calls[i], outcome)
       IN  publisher' = [publisher EXCEPT
                           !.calls[i] = c,
                           !.status = CASE outcome = "rejects" -> "Media error"
                                        [] c.camera = "requested" -> "Enabling camera..."
                                        [] OTHER -> "Microphone enabled - speak now!"]
    /\ button' = StatusShown(button, publisher')
    /\ UNCHANGED <<home, orb, endpoint, transcript, assistant>>

\* the camera request of an enableMedia call settles
CameraSettles ==
  \E i \in DOMAIN publisher.calls, outcome \in MediaOutcomes :
    /\ publisher.calls[i].camera = "requested"
    /\ publisher' = [publisher EXCEPT
                        !.calls[i].camera = IF outcome = "resolves" THEN "enabled" ELSE "failed",
                        !.status = IF outcome = "resolves"
                                   THEN "Camera & mic enabled - speak now!"
                                   ELSE "Media error"]
    /\ button' = StatusShown(button, publisher')
    /\ UNCHANGED <<home, orb, endpoint, transcript, assistant>>

PublisherNext == RoomConnected \/ MicrophoneSettles \/ CameraSettles

(***************************************************************************)
(* The button clients: components/home-client.tsx (one button) and         *)
(* app/components/home-client.tsx (a "voice" and a "realtime" button).     *)
(* They have no keyword engine; connectToAgent is the onClick handler of   *)
(* the connect buttons.  `button` is the state of the mounted client.      *)
(***************************************************************************)
\* number of clicks on a connect button in a run
MaxClicks == 3

NoStatus == "null"

ButtonVariants == {"single", "modes"}

\* the argument of connectToAgent for each button of the client
ButtonModes(variant) == IF variant = "modes" THEN {"voice", "realtime"} ELSE {NoMode}

ButtonMounted(variant) ==
           [ mounted        |-> TRUE,
             variant        |-> variant,
             isConnecting   |-> FALSE,
             isConnected    |-> FALSE,
             connectionMode |-> NoMode,
             token          |-> NoToken,
             serverUrl      |-> NoToken,
             error          |-> NoError,
             status         |-> NoStatus,
             isBlurActive   |-> FALSE,
             inFlight       |-> {},
             reqCount       |-> 0,
             last           |-> <<"mount">> ]

\* the page shows the wake-word client: no button client is mounted
ButtonAbsent == [ButtonMounted("none") EXCEPT !.mounted = FALSE]

\* connect buttons that are rendered while not connected, never disabled
ButtonEnabled_NeverDisabled(b) ==
  b.mounted /\ ~b.isConnected

\* {!isConnected && (<button onClick=... disabled={isConnecting}>)}
ButtonEnabled(b) ==
  b.mounted /\ ~b.isConnected /\ ~b.isConnecting

\* connectToAgent of a button client up to `await fetch`
ButtonConnectBegin(b, mode) ==
  [b EXCEPT !.isConnecting = TRUE,
            !.connectionMode = mode,
            !.error = NoError,
            !.status = "Fetching token...",
            !.reqCount = @ + 1,
            !.inFlight = @ \union {b.reqCount + 1},
            !.last = <<"click", mode>>]

\* the user clicks a connect button
ButtonClick ==
  \E mode \in ButtonModes(button.variant) :
    /\ ButtonEnabled(button)
    /\ button.reqCount < MaxClicks
    /\ button' = ButtonConnectBegin(button, mode)
    /\ UNCHANGED <<home, orb, endpoint, publisher, transcript, assistant>>

\* a connectToAgent whose success path leaves isConnecting set
ButtonConnectEnd_StaysConnecting(b, r, outcome) ==
  LET m == [b EXCEPT !.inFlight = @ \ {r}, !.last = <<"fetch", outcome>>]
  IN  IF outcome = "ok"
      THEN [m EXCEPT !.status = "Connecting to room...",
                     !.serverUrl = r,
                     !.token = r,
                     !.isConnected = TRUE,
                     !.isBlurActive = TRUE]
      ELSE [m EXCEPT !.error = ErrorText(outcome),
                     !.status = NoStatus,
                     !.connectionMode = NoMode,
                     !.isConnecting = FALSE]

\* connectToAgent of a button client after `await fetch`: try / catch / finally
ButtonConnectEnd(b, r, outcome) ==
  LET m == [b EXCEPT !.inFlight = @ \ {r}, !.last = <<"fetch", outcome>>]
  IN  IF outcome = "ok"
      THEN [m EXCEPT !.status = "Connecting to room...",
                     !.serverUrl = r,
                     !.token = r,
                     !.isConnected = TRUE,
                     !.isBlurActive = TRUE,
                     !.isConnecting = FALSE]
      ELSE [m EXCEPT !.error = ErrorText(outcome),
                     !.status = NoStatus,
                     !.connectionMode = NoMode,
                     !.isConnecting = FALSE]

\* the continuation of connectToAgent and the commit it causes: on success
\* LiveKitRoom is rendered and the effect of its publisher runs
ButtonFetchCompletes ==
  \E r \in button.inFlight, outcome \in FetchOutcomes, st \in RoomStatesAtMount :
    LET b == ButtonConnectEnd(button, r, outcome)
        rendered == RoomRendered(b) /\ ~RoomRendered(button)
    IN  /\ publisher' = IF rendered
                        THEN PublisherMounted(publisher, b.connectionMode = "realtime", st)
                        ELSE publisher
        /\ button' = IF rendered THEN StatusShown(b, publisher') ELSE b
        /\ UNCHANGED <<home, orb, endpoint, transcript, assistant>>

\* handleDisconnect of a button client; the single-button client also clears
\* the status line
ButtonHandleDisconnect(b) ==
  [b EXCEPT !.token = NoToken,
            !.serverUrl = NoToken,
            !.isConnected = FALSE,
            !.isBlurActive = FALSE,
            !.connectionMode = NoMode,
            !.status = IF b.variant = "single" THEN NoStatus ELSE @,
            !.last = <<"handleDisconnect">>]

\* onDisconnected of the button client's LiveKitRoom
ButtonRoomDisconnected ==
  /\ RoomRendered(button)
  /\ publisher' = MediaCleanup(publisher)
  /\ button' = ButtonHandleDisconnect(StatusShown(button, publisher'))
  /\ UNCHANGED <<home, orb, endpoint, transcript, assistant>>

ButtonNext == ButtonClick \/ ButtonFetchCompletes \/ ButtonRoomDisconnected

(***************************************************************************)
(* The token endpoints: POST of unnamed/part_002 (creates the room and     *)
(* dispatches "voice-agent"), unnamed/part_004 (names the agent in the     *)
(* token's room configuration) and unnamed/part_005 (creates the room and  *)
(* dispatches "realtime-vision-agent").  `endpoint` is one request with    *)
(* the environment it meets, the response and the calls the handler made.  *)
(***************************************************************************)
\* a process.env value: undefined, the empty string, or a proper value
EnvValues == {"undefined", "", "set"}

\* what request.json() meets: a body that is not JSON (or empty), the JSON
\* value null, an object without room_name, an object with room_name
Bodies == {"not json", "null", "{}", "{room_name}"}

TokenHandlers == {"part_002", "part_004", "part_005"}

\* outcomes of an awaited call of the LiveKit server SDK
CallOutcomes == {"resolves", "rejects"}

Absent == "absent"

NoResponse == [status |-> 0, error |-> Absent, server_url |-> Absent,
               participant_token |-> Absent, room_name |-> Absent]

\* !value
Falsy(value) == value \in {"undefined", ""}

\* a credentials test that forgets LIVEKIT_API_SECRET
CredentialsMissing_NoSecret(e) ==
  Falsy(e.apiKey) \/ Falsy(e.wsUrl)

\* if (!apiKey || !apiSecret || !wsUrl)
CredentialsMissing(e) ==
  Falsy(e.apiKey) \/ Falsy(e.apiSecret) \/ Falsy(e.wsUrl)

\* NextResponse.json({ error }, { status: 500 })
ErrorResponse(text) == [NoResponse EXCEPT !.status = 500, !.error = text]

\* body.room_name ?? `<prefix>-${random}`
RoomName(e, prefix) == IF e.body = "{room_name}" THEN "requested room" ELSE prefix

\* await request.json() rejects, or body.room_name is read from null
BodyThrows(e) == e.body \in {"not json", "null"}

\* the calls POST makes once the credentials are there: createRoom and
\* createDispatch (each in its own try/catch), then addGrant and toJwt;
\* `rejected` is the set of calls that threw
ServiceCalls(e, agent, roomName, room, dispatch, jwt) ==
  [e EXCEPT !.roomsCreated =
                IF agent # Absent /\ room = "resolves" THEN {roomName} ELSE {},
            !.dispatched =
                IF agent # Absent /\ dispatch = "resolves"
                THEN {<<roomName, agent>>} ELSE {},
            !.minted = IF jwt = "resolves" THEN {roomName} ELSE {},
            !.rejected =
                {c \in {"createRoom", "createDispatch", "toJwt"} :
                   \/ c = "createRoom" /\ agent # Absent /\ room = "rejects"
                   \/ c = "createDispatch" /\ agent # Absent /\ dispatch = "rejects"
                   \/ c = "toJwt" /\ jwt = "rejects"}]

\* NextResponse.json({ server_url, participant_token, room_name }, { status: 201 })
TokenResponse(roomName) ==
  [status            |-> 201,
   error             |-> Absent,
   server_url        |-> "LIVEKIT_URL",
   participant_token |-> "jwt",
   room_name         |-> roomName]

Post_RoomCreationFatal(e, agent, prefix, room, dispatch, jwt) ==
  LET roomName == RoomName(e, prefix)
      called == ServiceCalls(e, agent, roomName, room, dispatch, jwt)
  IN  IF BodyThrows(e)
      THEN [e EXCEPT !.response = ErrorResponse("Failed to generate token")]
      ELSE IF CredentialsMissing(e)
      THEN [e EXCEPT !.response = ErrorResponse("LiveKit credentials not configured")]
      ELSE IF jwt = "rejects" \/ (agent # Absent /\ room = "rejects")
      THEN [called EXCEPT !.response = ErrorResponse("Failed to generate token")]
      ELSE [called EXCEPT !.response = TokenResponse(roomName)]

\* the body of POST; `agent` is the agent createDispatch names (Absent in the
\* handler without room service), `prefix` the prefix of generated room names
Post(e, agent, prefix, room, dispatch, jwt) ==
  LET roomName == RoomName(e, prefix)
      called == ServiceCalls(e, agent, roomName, room, dispatch, jwt)
  IN  IF BodyThrows(e)
      THEN [e EXCEPT !.response = ErrorResponse("Failed to generate token")]
      ELSE IF CredentialsMissing(e)
      THEN [e EXCEPT !.response = ErrorResponse("LiveKit credentials not configured")]
      ELSE IF jwt = "rejects"
      THEN [called EXCEPT !.response = ErrorResponse("Failed to generate token")]
      ELSE [called EXCEPT !.response = TokenResponse(roomName)]

\* a request that has reached a handler and is not answered yet
Request(handler, key, secret, url, body) ==
           [ handler      |-> handler,
             apiKey       |-> key,
             apiSecret    |-> secret,
             wsUrl        |-> url,
             body         |-> body,
             response     |-> NoResponse,
             roomsCreated |-> {},
             dispatched   |-> {},
             minted       |-> {},
             rejected     |-> {} ]

NoRequest == Request("none", "undefined", "undefined", "undefined", "not json")

Unanswered(e) == e.response = NoResponse

PostToken ==
  \E room \in CallOutcomes, dispatch \in CallOutcomes, jwt \in CallOutcomes :
    /\ endpoint.handler = "part_002" /\ Unanswered(endpoint)
    /\ endpoint' = Post(endpoint, "voice-agent", "room", room, dispatch, jwt)
    /\ UNCHANGED <<home, orb, button, publisher, transcript, assistant>>

PostTokenRoomConfig ==
  \E jwt \in CallOutcomes :
    /\ endpoint.handler = "part_004" /\ Unanswered(endpoint)
    /\ endpoint' = Post(endpoint, Absent, "room", "rejects", "rejects", jwt)
    /\ UNCHANGED <<home, orb, button, publisher, transcript, assistant>>

PostRealtimeVision ==
  \E room \in CallOutcomes, dispatch \in CallOutcomes, jwt \in CallOutcomes :
    /\ endpoint.handler = "part_005" /\ Unanswered(endpoint)
    /\ endpoint' = Post(endpoint, "realtime-vision-agent", "vision", room, dispatch, jwt)
    /\ UNCHANGED <<home, orb, button, publisher, transcript, assistant>>

TokenNext == PostToken \/ PostTokenRoomConfig \/ PostRealtimeVision

(***************************************************************************)
(* TranscriptDisplay.  A text is the sequence of its words and of the      *)
(* whitespace between them.  `timers` are the pending timeouts in the      *)
(* order they are due: the 2000 ms fade timer of a final segment, and the  *)
(* 500 ms clear timer a fired fade timer starts.  A timer carries the      *)
(* number of the segment it was started for; a clear timer is due before   *)
(* any fade timer started after it, so the timers are due in the order     *)
(* they were started.                                                      *)
(***************************************************************************)
\* TranscriptionReceived events in a run
MaxTranscriptions == 3

\* fadeTimeoutRef.current === null
NoTimer == 0

\* segment.text
Texts == { <<>>, <<" ">>, <<"hello">>, <<"hello", " ", "mirror">> }

Segments == [text : Texts, final : BOOLEAN]

\* the segments of one event
SegmentLists == {<<g>> : g \in Segments} \union
                {<<g, h>> : g \in [text : {<<"hello">>}, final : BOOLEAN], h \in Segments}

\* the participant of the event: absent, or local or remote with an identity
Participants == {"undefined", "local user", "local agent-1", "remote user", "remote agent-1"}

\* identity.includes("agent") || !participant?.isLocal
IsAgent(participant) ==
  participant \in {"local agent-1", "remote agent-1"} \/
  participant \in {"undefined", "remote user", "remote agent-1"}

\* currentText.split(/\s+/).filter(w => w.length > 0)
Words(text) == SelectSeq(text, LAMBDA w : w # " ")

TranscriptMounted ==
           [ mounted         |-> TRUE,
             currentText     |-> <<>>,
             displayedWords  |-> <<>>,
             isActive        |-> FALSE,
             fadeTimeoutRef  |-> NoTimer,
             timers          |-> <<>>,
             events          |-> 0,
             segments        |-> 0,
             latest          |-> [id |-> 0, final |-> FALSE],
             last            |-> <<"mount">> ]

TranscriptAbsent == [TranscriptMounted EXCEPT !.mounted = FALSE]

\* clearTimeout(fadeTimeoutRef.current)
ClearFadeTimeout(t) ==
  IF t.fadeTimeoutRef # NoTimer
  THEN [t EXCEPT !.timers = SelectSeq(@, LAMBDA m :
                                ~(m.kind = "fade" /\ m.segment = t.fadeTimeoutRef))]
  ELSE t

\* one iteration of the loop of handleTranscription
HandleSegment(t, g, participant) ==
  LET id == t.segments + 1
      counted == [t EXCEPT !.segments = id]
      shown == [ClearFadeTimeout(counted) EXCEPT !.currentText = g.text,
                                                 !.isActive = TRUE,
                                                 !.latest = [id |-> id, final |-> g.final]]
  IN  IF ~IsAgent(participant) THEN counted
      ELSE IF g.final
      THEN [shown EXCEPT !.fadeTimeoutRef = id,
                         !.timers = Append(@, [kind |-> "fade", segment |-> id])]
      ELSE shown

RECURSIVE HandleSegments(_, _, _)
\* for (const segment of segments)
HandleSegments(t, list, participant) ==
  IF list = <<>> THEN t
  ELSE HandleSegments(HandleSegment(t, Head(list), participant), Tail(list), participant)

\* the effect on [currentText]
WordsEffect(t) ==
  IF t.currentText # <<>> THEN [t EXCEPT !.displayedWords = Words(t.currentText)] ELSE t

\* handleTranscription and the commit that follows
TranscriptionReceived ==
  \E list \in SegmentLists, participant \in Participants :
    /\ transcript.mounted
    /\ transcript.events < MaxTranscriptions
    /\ transcript' = WordsEffect(
           [HandleSegments(transcript, list, participant) EXCEPT
               !.events = @ + 1, !.last = <<"segments", participant>>])
    /\ UNCHANGED <<home, orb, button, endpoint, publisher, assistant>>

\* the callback of the 2000 ms timer
FadeTimerFires ==
  /\ transcript.timers # <<>>
  /\ Head(transcript.timers).kind = "fade"
  /\ LET m == Head(transcript.timers)
     IN  transcript' = [transcript EXCEPT
                          !.isActive = FALSE,
                          !.timers = Append(Tail(@), [kind |-> "clear", segment |-> m.segment]),
                          !.last = <<"fade", m.segment>>]
  /\ UNCHANGED <<home, orb, button, endpoint, publisher, assistant>>

\* the callback of the nested 500 ms timer
ClearTimerFires ==
  /\ transcript.timers # <<>>
  /\ Head(transcript.timers).kind = "clear"
  /\ LET m == Head(transcript.timers)
     IN  transcript' = [transcript EXCEPT
                          !.currentText = <<>>,
                          !.displayedWords = <<>>,
                          !.timers = Tail(@),
                          !.last = <<"clear", m.segment>>]
  /\ UNCHANGED <<home, orb, button, endpoint, publisher, assistant>>

TranscriptNext == TranscriptionReceived \/ FadeTimerFires \/ ClearTimerFires

(***************************************************************************)
(* RealtimeAssistant.  A frame is named by the stream it came from and its *)
(* number; `loops` holds, for each running readFrames call, the reader     *)
(* whose read() it awaits (readers are named by the number of their        *)
(* stream).  `received` lists the frames the loops have read, each with    *)
(* the newest stream at that time, and `turnsAt` the length of `received`  *)
(* at each completed user turn.                                            *)
(***************************************************************************)
\* VideoStreams created in a run
MaxStreams == 3

\* frames read in a run
MaxFrames == 4

\* user turns completed in a run
MaxTurns == 3

\* latestFrame === null
NoFrame == [stream |-> 0, n |-> 0]

\* streamReader === null
NoReader == 0

TrackKinds == {"audio", "video"}

AssistantConstructed ==
           [ constructed  |-> TRUE,
             entered      |-> FALSE,
             latestFrame  |-> NoFrame,
             streamReader |-> NoReader,
             isReading    |-> FALSE,
             streams      |-> 0,
             loops        |-> <<>>,
             messages     |-> <<>>,
             received     |-> <<>>,
             turnsAt      |-> <<>> ]

AssistantAbsent == [AssistantConstructed EXCEPT !.constructed = FALSE]

\* readFrames up to its first `await this.streamReader.read()`
readFrames(a) ==
  IF a.streamReader = NoReader \/ ~a.isReading THEN a
  ELSE [a EXCEPT !.loops = Append(@, a.streamReader)]

\* streamReader.cancel(): the pending reads of that reader resolve with done
CancelReader(a) ==
  [a EXCEPT !.loops = SelectSeq(@, LAMBDA r : r # a.streamReader)]

\* createVideoStream that leaves the previous reader open
createVideoStream_KeepsReader(a) ==
  readFrames([a EXCEPT !.streams = @ + 1, !.streamReader = a.streams + 1,
                       !.isReading = TRUE])

createVideoStream(a) ==
  LET closed == IF a.streamReader # NoReader
                THEN [CancelReader(a) EXCEPT !.streamReader = NoReader]
                ELSE a
  IN  readFrames([closed EXCEPT !.streams = @ + 1, !.streamReader = a.streams + 1,
                                !.isReading = TRUE])

\* onEnter: a stream for the video track a remote participant already
\* publishes, and the TrackSubscribed listener
OnEnter ==
  \E existing \in BOOLEAN :
    /\ assistant.constructed /\ ~assistant.entered
    /\ assistant' = [(IF existing THEN createVideoStream(assistant) ELSE assistant)
                       EXCEPT !.entered = TRUE]
    /\ UNCHANGED <<home, orb, button, endpoint, publisher, transcript>>

\* the TrackSubscribed listener
TrackSubscribed ==
  \E kind \in TrackKinds :
    /\ assistant.entered
    /\ assistant.streams < MaxStreams
    /\ assistant' = IF kind = "video" THEN createVideoStream(assistant) ELSE assistant
    /\ UNCHANGED <<home, orb, button, endpoint, publisher, transcript>>

\* the read() a readFrames loop awaits resolves with a frame; the loop stores
\* it and awaits the next read of this.streamReader
FrameRead ==
  \E i \in DOMAIN assistant.loops :
    /\ Len(assistant.received) < MaxFrames
    /\ LET frame == [stream |-> assistant.loops[i], n |-> Len(assistant.received) + 1]
       IN  assistant' = [assistant EXCEPT
                           !.latestFrame = frame,
                           !.received = Append(@, [frame |-> frame, newest |-> assistant.streams]),
                           !.loops[i] = assistant.streamReader]
    /\ UNCHANGED <<home, orb, button, endpoint, publisher, transcript>>

\* the read() a readFrames loop awaits resolves with done (the track ended)
\* or rejects: the loop ends
StreamEnds ==
  \E i \in DOMAIN assistant.loops :
    /\ assistant' = [assistant EXCEPT
                        !.loops = [k \in 1..(Len(@) - 1) |-> IF k < i THEN @[k] ELSE @[k + 1]]]
    /\ UNCHANGED <<home, orb, button, endpoint, publisher, transcript>>

\* onUserTurnCompleted
UserTurnCompleted ==
  /\ assistant.constructed
  /\ Len(assistant.messages) < MaxTurns
  /\ assistant' = [assistant EXCEPT
                      !.messages = Append(@, [image |-> assistant.latestFrame]),
                      !.turnsAt = Append(@, Len(assistant.received)),
                      !.latestFrame = NoFrame]
  /\ UNCHANGED <<home, orb, button, endpoint, publisher, transcript>>

AssistantNext == OnEnter \/ TrackSubscribed \/ FrameRead \/ StreamEnds \/ UserTurnCompleted

(***************************************************************************)
(* Specifications                                                          *)
(***************************************************************************)
\* the wake-word HomeClient, with or without an access key
HomeInit ==
  /\ \E key \in BOOLEAN : home = HomeMounted(key)
  /\ orb = OrbMounted
  /\ button = ButtonAbsent
  /\ endpoint = NoRequest
  /\ publisher = PublisherAbsent
  /\ transcript = TranscriptAbsent
  /\ assistant = AssistantAbsent

SpecHome == HomeInit /\ [][HomeNext]_vars

\* the wake-word HomeClient until it is unmounted, and the initPorcupine call
\* that is still in flight then
TeardownNext == MountedNext \/ HomeUnmount \/ InitPorcupineSettlesUnmounted

SpecHomeTeardown == HomeInit /\ [][TeardownNext]_vars

\* the wake-word HomeClient with an engine that completes every start() and
\* stop() it was asked for
SpecHomeLive == SpecHome /\ WF_vars(EngineOpCompletes)

\* the wake-word HomeClient when the functions handed out by usePorcupine
\* are not referentially stable
RerunsNext == HomeNext \/ WakeWordEffectReruns

SpecHomeReruns == HomeInit /\ [][RerunsNext]_vars

\* the SiriOrb component under arbitrary prop changes
OrbInit ==
  /\ home = HomeMounted(FALSE)
  /\ orb = OrbMounted
  /\ button = ButtonAbsent
  /\ endpoint = NoRequest
  /\ publisher = PublisherAbsent
  /\ transcript = TranscriptAbsent
  /\ assistant = AssistantAbsent

SpecOrb == OrbInit /\ [][OrbNext]_vars

\* the decay loop of SiriOrb after a detach
DecayInit ==
  /\ home = HomeMounted(FALSE)
  /\ \E level \in DecayStartLevels, p \in PropSets : orb = OrbSampling(level, p)
  /\ button = ButtonAbsent
  /\ endpoint = NoRequest
  /\ publisher = PublisherAbsent
  /\ transcript = TranscriptAbsent
  /\ assistant = AssistantAbsent

SpecDecay == DecayInit /\ [][DecayNext]_vars

\* the level of SiriOrb over its whole range
LevelInit ==
  /\ home = HomeMounted(FALSE)
  /\ \E level \in DecayStartLevels, p \in LevelPropSets : orb = OrbSampling(level, p)
  /\ button = ButtonAbsent
  /\ endpoint = NoRequest
  /\ publisher = PublisherAbsent
  /\ transcript = TranscriptAbsent
  /\ assistant = AssistantAbsent

SpecLevel == LevelInit /\ [][LevelNext]_vars

\* SiriOrb under steady input
SpecSteady == LevelInit /\ [][SteadyFrame]_vars

\* the history buffer of SiriOrb over long runs of samples
SpecHistory == OrbInit /\ [][HistoryNext]_vars

\* the page mounts one client: the wake-word client or a button client
ClientsInit ==
  /\ \/ home = HomeMounted(TRUE) /\ button = ButtonAbsent
     \/ home = HomeMounted(FALSE) /\ \E v \in ButtonVariants : button = ButtonMounted(v)
  /\ orb = OrbMounted
  /\ endpoint = NoRequest
  /\ publisher = PublisherAbsent
  /\ transcript = TranscriptAbsent
  /\ assistant = AssistantAbsent

ClientsNext == HomeNext \/ ButtonNext

SpecClients == ClientsInit /\ [][ClientsNext]_vars

\* one request to one of the token endpoints
TokenInit ==
  /\ home = HomeMounted(FALSE)
  /\ orb = OrbMounted
  /\ button = ButtonAbsent
  /\ \E handler \in TokenHandlers, key \in EnvValues, secret \in EnvValues,
        url \in EnvValues, body \in Bodies :
       endpoint = Request(handler, key, secret, url, body)
  /\ publisher = PublisherAbsent
  /\ transcript = TranscriptAbsent
  /\ assistant = AssistantAbsent

SpecToken == TokenInit /\ [][TokenNext]_vars

\* a button client with the MediaPublisher of its room
MediaNext == ButtonNext \/ PublisherNext

MediaInit ==
  /\ home = HomeMounted(FALSE)
  /\ orb = OrbMounted
  /\ \E v \in ButtonVariants : button = ButtonMounted(v)
  /\ endpoint = NoRequest
  /\ publisher = PublisherAbsent
  /\ transcript = TranscriptAbsent
  /\ assistant = AssistantAbsent

SpecMedia == MediaInit /\ [][MediaNext]_vars

\* TranscriptDisplay mounted in a room
TranscriptInit ==
  /\ home = HomeMounted(FALSE)
  /\ orb = OrbMounted
  /\ button = ButtonAbsent
  /\ endpoint = NoRequest
  /\ publisher = PublisherAbsent
  /\ transcript = TranscriptMounted
  /\ assistant = AssistantAbsent

SpecTranscript == TranscriptInit /\ [][TranscriptNext]_vars

\* the agent after `new RealtimeAssistant()`
AssistantInit ==
  /\ home = HomeMounted(FALSE)
  /\ orb = OrbMounted
  /\ button = ButtonAbsent
  /\ endpoint = NoRequest
  /\ publisher = PublisherAbsent
  /\ transcript = TranscriptAbsent
  /\ assistant = AssistantConstructed

SpecAssistant == AssistantInit /\ [][AssistantNext]_vars

(***************************************************************************)
(* Properties                                                              *)
(***************************************************************************)
\* a session is in progress: from the accepted detection (settle timer
\* pending) over the token request to the connected room
InSession(h) == h.settleTimers > 0 \/ h.isConnecting \/ h.isConnected

FailedFetch(h) == Len(h.last) = 2 /\ h.last[1] = "fetch" /\ h.last[2] # "ok"

\* C1: while a session is in progress (settle delay, token request, room
\* connected) no step invokes startPorcupine, and once the engine has no
\* start()/stop() outstanding it is not listening.
C1_ListeningExcludesSession ==
  InSession(home) =>
    /\ "startPorcupine" \notin home.calls
    /\ home.engineOps = << >> => ~home.isPorcupineListening

\* C2: a detection that arrives while the latch is set and the session it
\* started has not ended changes nothing but the keywordDetection value: no
\* state transition, no timer, no call.
C2_DetectionIgnoredInSession ==
  [][ ( /\ home'.keywordDetection # home.keywordDetection
        /\ home.connectingAfterWakeWordRef
        /\ InSession(home) )
      => home' = [home EXCEPT !.keywordDetection = home'.keywordDetection,
                              !.calls = {},
                              !.last = <<"keywordDetection">>] ]_vars

C2_Witness ==
  /\ home.last = <<"keywordDetection">>
  /\ home.keywordDetection = 2
  /\ home.reqCount <= 1
  /\ InSession(home)

\* C3: a detection that arrives while no session is in progress is accepted
\* in that step: the latch is set, stopPorcupine is called, and one settle
\* timer is scheduled whose callback issues the one token request.
C3_DetectionStartsConnecting ==
  [][ ( /\ home'.keywordDetection # home.keywordDetection
        /\ ~InSession(home) )
      => /\ home'.connectingAfterWakeWordRef
         /\ "stopPorcupine" \in home'.calls
         /\ "fetch" \notin home'.calls
         /\ home'.settleTimers = 1
         /\ home'.reqCount = home.reqCount ]_vars

\* C4: in the state a failed connectToAgent leaves, isConnecting and
\* isConnected are false, no token or serverUrl is stored, the error text is
\* the server's error string or a fallback, and nothing is pending that
\* would issue another token request.
C4_FailureReturnsToIdle ==
  FailedFetch(home) =>
    /\ ~home.isConnecting /\ ~home.isConnected
    /\ home.token = NoToken /\ home.serverUrl = NoToken
    /\ home.connectionMode = NoMode
    /\ home.error # NoError
    /\ home.last[2] = "status_error_body" => home.error = "server error string"
    /\ home.last[2] = "status_no_error_body" => home.error = "Failed to get token"
    /\ home.last[2] = "throws_other" => home.error = "Connection failed"
    /\ "fetch" \notin home.calls
    /\ home.settleTimers = 0 /\ home.inFlight = {}

C4_Witness ==
  home.last = <<"fetch", "status_error_body">> /\ home.reqCount = 1

\* C5: after a failed connection attempt the latch is clear, so that the
\* next detection starts a new attempt.
C5_RetryAfterFailure ==
  FailedFetch(home) => ~home.connectingAfterWakeWordRef

\* C6: handleDisconnect leaves no session state behind, and the descriptor
\* of a connected session is the one of the most recent token request, never
\* one that was discarded.
C6_DisconnectReleasesSession ==
  /\ home.last = <<"handleDisconnect">> =>
       /\ home.token = NoToken /\ home.serverUrl = NoToken
       /\ ~home.isConnected
       /\ home.connectionMode = NoMode
       /\ ~home.wakeWordDetected
       /\ ~home.agentAudioStream /\ ~home.isAgentSpeaking
       /\ ~home.connectingAfterWakeWordRef
  /\ home.isConnected =>
       /\ home.token = home.reqCount /\ home.serverUrl = home.reqCount
       /\ home.token \notin home.discarded

C6_Witness ==
  home.isConnected /\ home.discarded # {} /\ home.agentAudioStream

\* C7: while the 1.5 s timer of handleDisconnect is pending startPorcupine is
\* not invoked, and the timer's callback invokes it only if at that moment the
\* engine is loaded, is not listening and an access key is configured.
C7_NoRestartBeforeCooldown ==
  [][ /\ home'.resumeTimers # << >> => "startPorcupine" \notin home'.calls
      /\ (home'.last = <<"resume timer">> /\ "startPorcupine" \in home'.calls)
           => /\ home.isPorcupineLoaded
              /\ ~home.isPorcupineListening
              /\ home.hasKey ]_vars

\* C8: at most one per-frame callback of SiriOrb is pending at any time.
C8_OneFrameCallback ==
  orb.mounted => Len(orb.pending) <= 1

\* C9: after the unmount no per-frame callback is pending and no analysis
\* AudioContext is open.
C9_UnmountCancelsEverything ==
  ~orb.mounted => orb.pending = << >> /\ ~orb.contextOpen

\* C10: after a detach from any level in [0, 1] the level is never negative,
\* a fadeOut callback stays pending exactly while the level is above 0.001,
\* the level is exactly 0 once none is pending, and that happens within 342
\* frames.
C10_DecayTerminates ==
  /\ orb.smoothedLevel >= 0
  /\ orb.decayFrames <= 342
  /\ ~Attached(orb) =>
       /\ orb.pending # << >> =>
            /\ orb.smoothedLevel > FadeEpsilon
            /\ Len(orb.pending) = 1 /\ orb.pending[1].kind = "fadeOut"
       /\ orb.pending = << >> => orb.smoothedLevel = 0 /\ orb.audioLevel = 0

C10_Witness ==
  /\ ~Attached(orb)
  /\ orb.pending = << >> /\ orb.smoothedLevel = 0
  /\ orb.decayFrames = 341

\* C11: while the source is detached, once the level has reached 0 no
\* per-frame callback of any kind is scheduled, whatever sequence of
\* attaches and detaches came before.
C11_NoCallbackAtZero ==
  (orb.mounted /\ ~Attached(orb) /\ orb.smoothedLevel = 0) => orb.pending = << >>

\* C20: in every step that leaves the source detached (the detach itself and
\* every later frame) the displayed level does not increase; the level either
\* becomes its product with 0.98, rounded down, and that product is above
\* 0.001, or it becomes 0 and the product was at most 0.001.
C20_DecayIsGradual ==
  [][ ~Attached(orb') =>
        /\ orb'.audioLevel <= orb.audioLevel
        /\ orb'.audioLevel = orb'.smoothedLevel
        /\ \/ /\ orb'.smoothedLevel > FadeEpsilon
              /\ 50 * orb'.smoothedLevel <= 49 * orb.smoothedLevel
              /\ 49 * orb.smoothedLevel < 50 * orb'.smoothedLevel + 50
           \/ /\ orb'.smoothedLevel = 0
              /\ 49 * orb.smoothedLevel < 50 * (FadeEpsilon + 1) ]_vars

C20_Witness ==
  /\ ~Attached(orb)
  /\ orb.smoothedLevel = 0 /\ orb.audioLevel = 0
  /\ orb.decayFrames > 0 /\ orb.decayFrames < 341

\* C15: in the state the onError handler of LiveKitRoom leaves, isConnected
\* is false and no token or serverUrl is stored.
C15_RoomErrorReturnsToIdle ==
  home.last = <<"onError">> =>
    /\ ~home.isConnected
    /\ home.token = NoToken /\ home.serverUrl = NoToken

InitFailed(h) == h.initState \in {"failed", "error"}

\* C17: the step in which the initialization fails sets one error text; in
\* every state after the failure the engine is neither loaded nor listening,
\* no start()/stop() is outstanding, startPorcupine has not been called, no
\* detection and no token request has happened, and no later step changes
\* the state (no second initialization, no second report).
C17_InitFailureIsTerminal ==
  [][ InitFailed(home') =>
        /\ ~home'.isPorcupineLoaded /\ ~home'.isPorcupineListening
        /\ home'.engineOps = << >>
        /\ "startPorcupine" \notin home'.calls
        /\ home'.keywordDetection = NoDetection /\ home'.reqCount = 0
        /\ home'.initState = "failed" => home'.error = "Wake word init failed"
        /\ home'.initState = "error" => home'.error = "Wake word error"
        /\ home.initState = "pending" ]_vars

C17_Witness ==
  /\ home.initState = "error"
  /\ home.porcupineInitializedRef
  /\ home.error = "Wake word error"

\* C18: in every state after an initialization failure some step is enabled
\* that starts a connection attempt: one that schedules connectToAgent or
\* issues the token request.
C18_ConnectEnabledAfterInitFailure ==
  InitFailed(home) =>
    ENABLED ( /\ HomeNext
              /\ \/ home'.settleTimers > home.settleTimers
                 \/ "fetch" \in home'.calls )

\* C14: the number of connection attempts started by the wake word effect
\* (settle timers scheduled: those pending plus those that issued their token
\* request) never exceeds the number of detections the engine emitted.
C14_DetectionConsumedOnce ==
  home.settleTimers + home.reqCount <= home.keywordDetection

\* C13: in the wake-word client and in the button clients at most one token
\* request is in flight, and a request is in flight only while isConnecting
\* is set and the client is not connected.
C13_OneRequestInFlight ==
  /\ Cardinality(home.inFlight) <= 1
  /\ Cardinality(button.inFlight) <= 1
  /\ home.inFlight # {} => home.isConnecting /\ ~home.isConnected
  /\ button.inFlight # {} => button.isConnecting /\ ~button.isConnected

C13_Witness ==
  /\ button.variant = "modes"
  /\ button.reqCount = 2
  /\ button.inFlight = {2}
  /\ button.connectionMode = "realtime"

Answered(e) == e.response # NoResponse

\* C19 as stated: whenever a credential is missing the answer is 500 with the
\* error "LiveKit credentials not configured".
C19_MissingCredentialsError ==
  (Answered(endpoint) /\ CredentialsMissing(endpoint)) =>
    /\ endpoint.response.status = 500
    /\ endpoint.response.error = "LiveKit credentials not configured"

\* C19 amended: every answer is either 201 with server_url, participant_token
\* and room_name, or 500 with an error string; with a credential missing the
\* answer is 500, no room was created, no agent dispatched and no token
\* minted, and the error is "LiveKit credentials not configured" exactly when
\* the request body could be read, "Failed to generate token" otherwise.
C19_TokenEndpointContract ==
  Answered(endpoint) =>
    /\ \/ /\ endpoint.response.status = 201
          /\ endpoint.response.error = Absent
          /\ endpoint.response.server_url # Absent
          /\ endpoint.response.participant_token # Absent
          /\ endpoint.response.room_name # Absent
          /\ endpoint.response.room_name \in endpoint.minted
       \/ /\ endpoint.response.status = 500
          /\ endpoint.response.error \in
               {"LiveKit credentials not configured", "Failed to generate token"}
          /\ endpoint.response.server_url = Absent
          /\ endpoint.response.participant_token = Absent
          /\ endpoint.response.room_name = Absent
    /\ (Falsy(endpoint.apiKey) \/ Falsy(endpoint.apiSecret) \/ Falsy(endpoint.wsUrl)) =>
         /\ endpoint.response.status = 500
         /\ endpoint.roomsCreated = {} /\ endpoint.dispatched = {}
         /\ endpoint.minted = {}
         /\ endpoint.body \in {"{}", "{room_name}"} =>
              endpoint.response.error = "LiveKit credentials not configured"
         /\ endpoint.body \in {"not json", "null"} =>
              endpoint.response.error = "Failed to generate token"

C19_Witness ==
  /\ endpoint.handler = "part_005"
  /\ endpoint.apiKey = "set" /\ endpoint.apiSecret = "" /\ endpoint.wsUrl = "set"
  /\ endpoint.body = "{}"
  /\ endpoint.response.error = "LiveKit credentials not configured"

\* C12: the history buffer never holds more than 12 samples, and it is the
\* sequence of the last min(n, 12) of the n samples pushed since the buffer
\* was last reset, oldest first.
C12_HistoryIsRecentSamples ==
  LET n == Len(orb.pushed)
      k == Min(n, historySize)
  IN  /\ Len(orb.history) <= historySize
      /\ orb.history = [i \in 1..k |-> orb.pushed[n - k + i]]

C12_Witness ==
  /\ Len(orb.pushed) = historySize + 1
  /\ orb.propChanges = 3
  /\ Len(orb.history) = historySize
  /\ orb.history[1] # orb.history[historySize]
  /\ orb.pushed[1] # orb.history[1]

\* C21: after every step that leaves the source detached the history buffer
\* is empty, and the step that attaches the source leaves exactly one sample
\* in the buffer, which is the moving average of that step.
C21_HistoryResetOnDetach ==
  [][ /\ ~Attached(orb') => orb'.history = << >>
      /\ (~Attached(orb) /\ Attached(orb')) =>
            /\ Len(orb'.history) = 1
            /\ orb'.targetLevel = orb'.history[1] ]_vars

C21_Witness ==
  /\ Attached(orb)
  /\ orb.propChanges = 3
  /\ Len(orb.history) = 1 /\ orb.history[1] > 0
  /\ Len(orb.pending) = 2

\* C22: the smoothed level, the moving average and the displayed level are
\* in [0, 1] in every reachable state, and the scale computed from the
\* displayed level is between minScale and maxScale.
C22_LevelInUnitInterval ==
  /\ 0 <= orb.smoothedLevel /\ orb.smoothedLevel <= Scale
  /\ 0 <= orb.targetLevel /\ orb.targetLevel <= Scale
  /\ 0 <= orb.audioLevel /\ orb.audioLevel <= Scale
  /\ \A i \in 1..Len(orb.history) : 0 <= orb.history[i] /\ orb.history[i] <= Scale
  /\ minScale <= OrbScale(orb) /\ OrbScale(orb) <= maxScale

C22_Witness ==
  /\ Attached(orb) /\ orb.props = ExtremeProps
  /\ orb.propChanges = 3 /\ orb.decayFrames > 0
  /\ orb.smoothedLevel = Scale /\ orb.audioLevel = Scale
  /\ OrbScale(orb) = maxScale

\* 0.001
SteadyEpsilon == Scale \div 1000

Abs(a) == IF a < 0 THEN 0 - a ELSE a

\* C26: under a constant sample x, once the history buffer holds only x (12
\* frames) the moving average is x; after 190 frames the smoothed level is
\* within 0.001 of x; and a level equal to x stays x.
C26_SteadyState ==
  [][ /\ orb'.samples > historySize =>
            /\ \A i \in 1..Len(orb'.history) : orb'.history[i] = SteadySample(orb')
            /\ orb'.targetLevel = SteadySample(orb')
      /\ orb'.samples > 190 =>
            Abs(orb'.smoothedLevel - SteadySample(orb')) <= SteadyEpsilon
      /\ ( /\ orb.samples > historySize
           /\ orb.smoothedLevel = SteadySample(orb) )
         => /\ orb'.smoothedLevel = SteadySample(orb)
            /\ orb'.audioLevel = SteadySample(orb) ]_vars

C26_Witness ==
  /\ orb.samples = MaxSteadySamples
  /\ orb.props = "home"
  /\ SteadySample(orb) > 0
  /\ orb.smoothedLevel = SteadySample(orb)
  /\ orb.pushed[1] = Scale

\* the engine is loaded, is not listening, and no session is connecting or
\* connected
LoadedIdle(h) ==
  h.hasKey /\ h.isPorcupineLoaded /\ ~h.isPorcupineListening
    /\ ~h.isConnecting /\ ~h.isConnected

\* C23: whenever the engine is loaded and not listening and no session is
\* connecting or connected, startPorcupine has been called (in this step, or
\* earlier and still outstanding), and the engine is eventually listening.
C23_ListeningEventuallyStarts ==
  /\ [](LoadedIdle(home) =>
          \/ "startPorcupine" \in home.calls
          \/ \E i \in 1..Len(home.engineOps) : home.engineOps[i] = "start")
  /\ (LoadedIdle(home) ~> home.isPorcupineListening)

C23_Witness ==
  /\ home.last = <<"engine", "start">>
  /\ home.isPorcupineListening
  /\ home.keywordDetection = NoDetection
  /\ home.engineOps = << >>

\* the connection state of a client changes from c to d in a legal way: never
\* connecting and connected at once, connected only with a token, isConnected
\* set only by the continuation of a successful token request and cleared
\* only by handleDisconnect
ConnectionStep(c, d) ==
  /\ ~(d.isConnecting /\ d.isConnected)
  /\ d.isConnected => d.token # NoToken /\ d.serverUrl # NoToken
  /\ (~c.isConnected /\ d.isConnected) => d.last = <<"fetch", "ok">>
  /\ (c.isConnected /\ ~d.isConnected) => d.last = <<"handleDisconnect">>

\* C25: in the wake-word client and in the button clients isConnecting and
\* isConnected are never both true, and isConnected is true exactly from a
\* successful token request to the next handleDisconnect.
C25_OneConnectionState ==
  [][ConnectionStep(home, home') /\ ConnectionStep(button, button')]_vars

C25_Witness ==
  /\ button.variant = "single"
  /\ button.isConnected
  /\ button.reqCount = 3
  /\ button.last = <<"fetch", "ok">>

\* C28: after the unmount no initialized engine is left unreleased.
C28_EngineReleasedOnTeardown ==
  ~home.mounted => home.engine # "initialized"

\* the handlers that create a room and dispatch an agent
Dispatching(e) == e.handler \in {"part_002", "part_005"}

\* the room the answer has to name: the request's room_name when given, else
\* a generated one
ExpectedRoom(e) ==
  IF e.body = "{room_name}" THEN "requested room"
  ELSE IF e.handler = "part_002" THEN "room" ELSE "vision"

\* the answer is a success response for the room the token grants access to
IssuedFor(e) ==
  /\ e.response.status = 201
  /\ e.response.participant_token # Absent
  /\ e.response.room_name = ExpectedRoom(e)
  /\ e.minted = {e.response.room_name}

\* C29 as stated: with the credentials configured and a body that parses as
\* JSON, a handler that creates a room and dispatches an agent answers with a
\* success response for the expected room.
C29_TokenIssuedForParseableBody ==
  (Answered(endpoint) /\ Dispatching(endpoint) /\ ~CredentialsMissing(endpoint)
     /\ endpoint.body # "not json") => IssuedFor(endpoint)

\* C29 amended: with the credentials configured, a body that parses to a JSON
\* object and a token that could be signed, the answer is a success response
\* for the expected room, whether or not createRoom and createDispatch failed.
C29_DispatchFailureKeepsToken ==
  (Answered(endpoint) /\ Dispatching(endpoint) /\ ~CredentialsMissing(endpoint)
     /\ endpoint.body \in {"{}", "{room_name}"}
     /\ "toJwt" \notin endpoint.rejected) => IssuedFor(endpoint)

C29_Witness ==
  /\ endpoint.handler = "part_002"
  /\ endpoint.body = "{}"
  /\ endpoint.rejected = {"createRoom", "createDispatch"}
  /\ endpoint.roomsCreated = {} /\ endpoint.dispatched = {}
  /\ endpoint.response.status = 201
  /\ endpoint.response.room_name = "room"

\* C27 as stated: a timer clears a displayed text only if it is the clear
\* timer of the latest agent segment, and that segment was final.
C27_ClearedOnlyByLatestSegment ==
  [][ (Words(transcript.currentText) # <<>> /\ transcript'.currentText = <<>>
         /\ transcript'.last[1] = "clear") =>
        /\ transcript'.last[2] = transcript.latest.id
        /\ transcript.latest.final ]_vars

\* an enableMedia call has asked for the camera
CameraRequested(c) == c.camera # "none"

\* C24: a mounted publisher in a connected room has started enableMedia, and
\* every enableMedia call was started in a connected room and requested the
\* microphone; it requested the camera exactly when enableVideo was set and
\* its microphone request had succeeded; enableVideo is set exactly in
\* realtime mode; and a step in which a request fails leaves the connection
\* state of the client and of the room as it was.
C24_MediaEnabledOnConnect ==
  [][ /\ (publisher'.mounted /\ publisher'.roomState = "connected") =>
           /\ publisher'.calls # <<>>
           /\ publisher'.calls[Len(publisher'.calls)].video = publisher'.enableVideo
      /\ publisher'.mounted => (publisher'.enableVideo <=> button'.connectionMode = "realtime")
      /\ \A i \in DOMAIN publisher'.calls :
           LET c == publisher'.calls[i]
           IN  /\ c.connected = "connected"
               /\ c.microphone # "none"
               /\ CameraRequested(c) <=> (c.video /\ c.microphone = "enabled")
      /\ (\E i \in DOMAIN publisher.calls :
             \/ publisher'.calls[i].microphone = "failed" /\ publisher.calls[i].microphone # "failed"
             \/ publisher'.calls[i].camera = "failed" /\ publisher.calls[i].camera # "failed") =>
           /\ button'.isConnected = button.isConnected
           /\ button'.isConnecting = button.isConnecting
           /\ button'.connectionMode = button.connectionMode
           /\ button'.token = button.token
           /\ publisher'.roomState = publisher.roomState
           /\ publisher'.mounted = publisher.mounted ]_vars

C24_Witness ==
  /\ button.variant = "modes" /\ button.connectionMode = "realtime"
  /\ button.isConnected
  /\ publisher.mounted /\ publisher.roomState = "connected"
  /\ Len(publisher.calls) = 2
  /\ publisher.calls[1].video = FALSE /\ publisher.calls[1].microphone = "failed"
  /\ publisher.calls[2].microphone = "enabled" /\ publisher.calls[2].camera = "failed"

\* C30: no frame is attached to two messages; the image of a message is the
\* last frame read since the previous turn, and none if no frame was read
\* since; and every frame read came from the newest stream.
C30_FrameAttachedOnce ==
  /\ \A i, j \in DOMAIN assistant.messages :
        (i # j /\ assistant.messages[i].image # NoFrame) =>
          assistant.messages[i].image # assistant.messages[j].image
  /\ \A i \in DOMAIN assistant.messages :
        LET before == IF i = 1 THEN 0 ELSE assistant.turnsAt[i - 1]
            now    == assistant.turnsAt[i]
        IN  assistant.messages[i].image =
              IF now > before THEN assistant.received[now].frame ELSE NoFrame
  /\ \A k \in DOMAIN assistant.received :
        assistant.received[k].frame.stream = assistant.received[k].newest

C30_Witness ==
  /\ Len(assistant.messages) = 3
  /\ assistant.messages[1].image = [stream |-> 1, n |-> 2]
  /\ assistant.messages[2].image = NoFrame
  /\ assistant.messages[3].image = [stream |-> 2, n |-> 3]
  /\ assistant.streams = 2

====
